---- MODULE Spec2Model ----
(***************************************************************************)
(* Model of the PAK dynamic array engine of src/pak.h (pak__arr_new,       *)
(* pak__arr_new_gc, pak__arr_free, pak__arr_resize, pak__arr_expand,       *)
(* pak__arr_contract, pak__arr_push, pak__arr_pop).                        *)
(*                                                                         *)
(* The array is one heap block: a pak__arr header followed by the element  *)
(* slots.  The header fields are the variables count, max, rate, elem_sz,  *)
(* sig and gc; pp is the handle variable of the caller (pp[0] in C), alloc *)
(* is the number of element slots the block really has (what was last      *)
(* passed to malloc/realloc with success), and elems is what the slots     *)
(* [0, count) hold.  Element i of the C array is elems[i + 1].             *)
(***************************************************************************)
EXTENDS Integers, Sequences, FiniteSets, TLC

(* ---- bounds of the model ---- *)
MaxCap == 4          \* largest capacity a caller asks for / the engine grows to
MaxIds == 3          \* number of pushes (distinct payload identities) in a run
IntBits == 5         \* width of an int in bits

(* ---- program constants ---- *)
PAK_ARR_SIGNATURE == 6241322      \* 0x5F3C2A
NULL == 0

Addrs == {1, 2}                   \* addresses malloc/realloc may return
ElemSizes == {4, 8}               \* element sizes of the tests: int and pointer to int

(* The payloads are distinct values, as in the tests (the ints 0..4999,    *)
(* distinct malloc'd pointers): the k-th successful push stores k.         *)
(* GARBAGE is what a slot outside the allocated block may read as.         *)
Ids == 1..MaxIds
GARBAGE == 0

VARIABLES
    phase,      \* "init": no array yet, "live": array exists, "freed": released
    pp,         \* the caller's handle variable: NULL or the block's address
    count, max, rate, elem_sz, sig, gc,   \* header fields
    alloc,      \* element slots of the backing allocation
    elems,      \* contents of slots [0, count)
    nextId,     \* identity of the next pushed payload
    hooked,     \* hooked[i]: how often the payload with identity i met the hook
    last,       \* the last call: op, arguments, return code, hook calls in order
    lpp,        \* the caller's pak_list pointer variable: NULL or the list's address
    list,       \* the pak_list structure: count, elem_sz, gc, first, last
    nodes,      \* the pak_node structures ever allocated: data, next, prev
    lheap,      \* the allocations of the list library that are not released
    dict,       \* the dictionary structure: max, rate, busy, buckets
    pairs       \* the pairs ever allocated: key, val, next, and whether released

vars == <<phase, pp, count, max, rate, elem_sz, sig, gc, alloc, elems,
          nextId, hooked, last, lpp, list, nodes, lheap, dict, pairs>>

(* The fields of the array a step may change, apart from the call record.  *)
arrayState == <<pp, count, max, rate, elem_sz, sig, gc, alloc, elems>>

(* The state of the list and dictionary libraries, which the array engine  *)
(* never touches.                                                          *)
otherState == <<lpp, list, nodes, lheap, dict, pairs>>

(* The array as one value, for the operators below. *)
Arr == [pp |-> pp, count |-> count, max |-> max, rate |-> rate,
        elem_sz |-> elem_sz, sig |-> sig, gc |-> gc,
        alloc |-> alloc, elems |-> elems]

(* A hook argument that is the first slot instead of the last.            *)
pak_arr_notype_last_First(a, c) ==
    [idx |-> 0,
     e |-> IF Len(a.elems) >= 1 THEN a.elems[1] ELSE GARBAGE]

(* pak_arr_notype_last(arr): the slot at index count - 1, for the hook.    *)
pak_arr_notype_last(a, c) ==
    [idx |-> c - 1,
     e |-> IF c >= 1 /\ c <= Len(a.elems) THEN a.elems[c] ELSE GARBAGE]

(* The result of a call: return code, the array afterwards and the hook   *)
(* calls made, in order.                                                   *)
Result(rc, a, log) == [rc |-> rc, arr |-> a, log |-> log]

(* realloc(head, sizeof(header) + elem_sz * m) that succeeds: the block    *)
(* has m slots and lives at addr; the slots that were inside the old block *)
(* are copied.  Slots [alloc, count) were never inside the old block (they *)
(* were written past its end): whether they survive is not defined, keep   *)
(* chooses.                                                                *)
pak_realloc(a, m, addr, keep) ==
    [a EXCEPT !.pp = addr,
              !.alloc = m,
              !.elems = [i \in 1..Len(a.elems) |->
                           IF i <= a.alloc \/ keep THEN a.elems[i] ELSE GARBAGE]]

(* A resize that also lets a capacity of zero through.                     *)
ResizeArgOk_AllowsZero(m) == m >= 0

(* A resize without the assertion on its argument.                        *)
ResizeArgOk_Unchecked(m) == TRUE

(* pak_assert(max > 0) of pak__arr_resize.                                 *)
ResizeArgOk(m) == m > 0

(* while (head->gc && --head->count > max) head->gc(pak_arr_notype_last(arr)) *)
(* c is head->count before the decrement; the hook sees the slot at the    *)
(* index count - 1 of the decremented count.                               *)
RECURSIVE ResizeGcLoop(_, _, _, _)
ResizeGcLoop(a, c, m, log) ==
    IF ~a.gc THEN [count |-> c, log |-> log]
    ELSE IF c - 1 > m
         THEN ResizeGcLoop(a, c - 1, m, Append(log, pak_arr_notype_last(a, c - 1)))
         ELSE [count |-> c - 1, log |-> log]

(* A truncation that forgets the assignment head->count = max after the   *)
(* loop.                                                                   *)
ResizeTruncate_NoClamp(a, m) ==
    IF m < a.count
    THEN ResizeGcLoop(a, a.count, m, <<>>)
    ELSE [count |-> a.count, log |-> <<>>]

(* if (max < head->count) { <loop>; head->count = max; }                   *)
ResizeTruncate(a, m) ==
    IF m < a.count
    THEN [count |-> m, log |-> ResizeGcLoop(a, a.count, m, <<>>).log]
    ELSE [count |-> a.count, log |-> <<>>]

(* A resize that also stores the new capacity as the growth rate, as      *)
(* pak__arr_new does with its max.                                         *)
pak__arr_resize_SetsRate(a, m, ok, addr, keep) ==
    IF ~ResizeArgOk(m) THEN Result(-1, a, <<>>)
    ELSE IF a.sig # PAK_ARR_SIGNATURE THEN Result(-1, a, <<>>)
    ELSE LET t  == ResizeTruncate(a, m)
             a1 == [a EXCEPT !.count = t.count,
                             !.elems = SubSeq(a.elems, 1, t.count),
                             !.max = m,
                             !.rate = m]
         IN  IF ok THEN Result(0, pak_realloc(a1, m, addr, keep), t.log)
                   ELSE Result(-1, a1, t.log)

(* pak__arr_resize(pp, max): ok says whether realloc succeeds.             *)
pak__arr_resize(a, m, ok, addr, keep) ==
    IF ~ResizeArgOk(m) THEN Result(-1, a, <<>>)
    ELSE IF a.sig # PAK_ARR_SIGNATURE THEN Result(-1, a, <<>>)
    ELSE LET t  == ResizeTruncate(a, m)
             a1 == [a EXCEPT !.count = t.count,
                             !.elems = SubSeq(a.elems, 1, t.count),
                             !.max = m]
         IN  IF ok THEN Result(0, pak_realloc(a1, m, addr, keep), t.log)
                   ELSE Result(-1, a1, t.log)

(* The header fields count, max and rate are ints.  An int has IntBits     *)
(* bits in two's complement; IntWrap(x) is the int that the sum x of two   *)
(* ints is stored as: x modulo 2^IntBits, in INT_MIN..INT_MAX.             *)
INT_MAX == 2 ^ (IntBits - 1) - 1

(* An int addition that saturates at INT_MAX instead of wrapping.          *)
IntWrap_Saturating(x) == IF x > INT_MAX THEN INT_MAX ELSE x

IntWrap(x) == ((x + INT_MAX + 1) % (2 * (INT_MAX + 1))) - (INT_MAX + 1)

(* An expand that asks for the capacity the array already has.            *)
pak__arr_expand_NoGrowth(a, ok, addr, keep) ==
    pak__arr_resize(a, a.max, ok, addr, keep)

(* An expand that doubles the capacity instead of adding the growth rate. *)
pak__arr_expand_Doubling(a, ok, addr, keep) ==
    pak__arr_resize(a, a.max * 2, ok, addr, keep)

(* pak__arr_expand(pp) *)
pak__arr_expand(a, ok, addr, keep) ==
    pak__arr_resize(a, IntWrap(a.max + a.rate), ok, addr, keep)

(* pak__arr_contract(pp) *)
pak__arr_contract(a, ok, addr, keep) ==
    pak__arr_resize(a, a.max - a.rate, ok, addr, keep)

(* A push that does not compare the sizes.                                *)
PushSizeOk_Unchecked(a, sz) == TRUE

(* pak_assert(sz == head->elem_sz) of pak__arr_push.                       *)
PushSizeOk(a, sz) == sz = a.elem_sz

(* head->count++; memcpy(pak_arr_notype_last(arr), e, sz): the slot at the *)
(* old count receives e when it lies inside the block; a slot past the end *)
(* of the block is written out of bounds and reads back as oob.            *)
PushStore(a, e, oob) ==
    [a EXCEPT !.count = a.count + 1,
              !.elems = Append(a.elems, IF a.count < a.alloc THEN e ELSE oob)]

(* A push that expands as soon as the pushed element fills the array,     *)
(* that is when count + 1 >= max, instead of when it finds the array full. *)
pak__arr_push_EagerExpand(a, sz, e, ok, addr, keep, oob) ==
    IF a.sig # PAK_ARR_SIGNATURE THEN Result(-1, a, <<>>)
    ELSE IF ~PushSizeOk(a, sz) THEN Result(-1, a, <<>>)
    ELSE IF a.count + 1 >= a.max
         THEN LET r == pak__arr_expand(a, ok, addr, keep)
              IN  IF r.rc = 0 THEN Result(0, PushStore(r.arr, e, oob), r.log)
                              ELSE Result(-1, r.arr, r.log)
         ELSE Result(0, PushStore(a, e, oob), <<>>)

(* pak__arr_push(pp, sz, e) *)
pak__arr_push(a, sz, e, ok, addr, keep, oob) ==
    IF a.sig # PAK_ARR_SIGNATURE THEN Result(-1, a, <<>>)
    ELSE IF ~PushSizeOk(a, sz) THEN Result(-1, a, <<>>)
    ELSE IF a.count >= a.max
         THEN LET r == pak__arr_expand(a, ok, addr, keep)
              IN  IF r.rc = 0 THEN Result(0, PushStore(r.arr, e, oob), r.log)
                              ELSE Result(-1, r.arr, r.log)
         ELSE Result(0, PushStore(a, e, oob), <<>>)

(* A contraction test that is off by one: it also fires at the boundary.  *)
PopContracts_OffByOne(a) == a.count <= a.max - a.rate

(* if (head->count < head->max - head->rate) of pak__arr_pop.              *)
PopContracts(a) == a.count < a.max - a.rate

(* A pop whose contraction test sits outside the if (head->count > 0)      *)
(* block, so that it also runs on an empty array.                          *)
pak__arr_pop_ContractsWhenEmpty(a, ok, addr, keep) ==
    IF a.sig # PAK_ARR_SIGNATURE THEN Result(-1, a, <<>>)
    ELSE LET log1 == IF a.count > 0 /\ a.gc
                     THEN <<pak_arr_notype_last(a, a.count)>> ELSE <<>>
             a1   == IF a.count > 0
                     THEN [a EXCEPT !.count = a.count - 1,
                                    !.elems = SubSeq(a.elems, 1, a.count - 1)]
                     ELSE a
         IN  IF PopContracts(a1)
             THEN LET r == pak__arr_contract(a1, ok, addr, keep)
                  IN  Result(0, r.arr, log1 \o r.log)
             ELSE Result(0, a1, log1)

(* A pop without the assertion on the signature.                           *)
pak__arr_pop_NoSigCheck(a, ok, addr, keep) ==
    IF a.count > 0
    THEN LET log1 == IF a.gc THEN <<pak_arr_notype_last(a, a.count)>> ELSE <<>>
             a1   == [a EXCEPT !.count = a.count - 1,
                               !.elems = SubSeq(a.elems, 1, a.count - 1)]
         IN  IF PopContracts(a1)
             THEN LET r == pak__arr_contract(a1, ok, addr, keep)
                  IN  Result(0, r.arr, log1 \o r.log)
             ELSE Result(0, a1, log1)
    ELSE Result(0, a, <<>>)

(* pak__arr_pop(pp): the result of the contraction is ignored.             *)
pak__arr_pop(a, ok, addr, keep) ==
    IF a.sig # PAK_ARR_SIGNATURE THEN Result(-1, a, <<>>)
    ELSE IF a.count > 0
         THEN LET log1 == IF a.gc THEN <<pak_arr_notype_last(a, a.count)>> ELSE <<>>
                  a1   == [a EXCEPT !.count = a.count - 1,
                                    !.elems = SubSeq(a.elems, 1, a.count - 1)]
              IN  IF PopContracts(a1)
                  THEN LET r == pak__arr_contract(a1, ok, addr, keep)
                       IN  Result(0, r.arr, log1 \o r.log)
                  ELSE Result(0, a1, log1)
         ELSE Result(0, a, <<>>)

(* while (head->gc && --head->count > 0) head->gc(pak_arr_notype_last(arr)) *)
RECURSIVE FreeGcLoop(_, _, _)
FreeGcLoop(a, c, log) ==
    IF ~a.gc THEN [count |-> c, log |-> log]
    ELSE IF c - 1 > 0
         THEN FreeGcLoop(a, c - 1, Append(log, pak_arr_notype_last(a, c - 1)))
         ELSE [count |-> c - 1, log |-> log]

(* pak__arr_free(pp): returns nothing; rc 0 here means the block was       *)
(* released and *pp set to NULL, -1 that an assertion jumped to fail.      *)
pak__arr_free(a) ==
    IF a.pp = NULL THEN Result(-1, a, <<>>)
    ELSE IF a.sig # PAK_ARR_SIGNATURE THEN Result(-1, a, <<>>)
    ELSE LET t == FreeGcLoop(a, a.count, <<>>)
         IN  Result(0, [a EXCEPT !.count = t.count, !.pp = NULL, !.alloc = 0], t.log)

(* A constructor without pak_assert(max > 0): it allocates whatever max.  *)
pak__arr_new_gc_NoCheck(sz, m, g, ok, addr) ==
    IF ~ok THEN Result(-1, Arr, <<>>)
    ELSE Result(0, [pp |-> IF addr = NULL THEN 1 ELSE addr,
                    count |-> 0, max |-> m, rate |-> m,
                    elem_sz |-> sz, sig |-> PAK_ARR_SIGNATURE, gc |-> g,
                    alloc |-> m, elems |-> <<>>], <<>>)

(* pak__arr_new(sz, max) followed by the gc assignment of pak__arr_new_gc: *)
(* ok says whether malloc succeeds.                                        *)
pak__arr_new_gc(sz, m, g, ok, addr) ==
    IF ~(m > 0) THEN Result(-1, Arr, <<>>)
    ELSE IF ~ok THEN Result(-1, Arr, <<>>)
    ELSE Result(0, [pp |-> addr, count |-> 0, max |-> m, rate |-> m,
                    elem_sz |-> sz, sig |-> PAK_ARR_SIGNATURE, gc |-> g,
                    alloc |-> m, elems |-> <<>>], <<>>)

(* ---- the state machine ---- *)

(* No list and no dictionary have been created.                            *)
NoList == [count |-> 0, elem_sz |-> 0, gc |-> FALSE, first |-> NULL, last |-> NULL]
NoDict == [max |-> 0, rate |-> 0, busy |-> 0, buckets |-> <<>>]
OtherIdle ==
    /\ lpp = NULL
    /\ list = NoList
    /\ nodes = <<>>
    /\ lheap = {}
    /\ dict = NoDict
    /\ pairs = <<>>

NoCall == [op |-> "none", rc |-> 0, m |-> 0, sz |-> 0, log |-> <<>>]

Init ==
    /\ phase = "init"
    /\ pp = NULL
    /\ count = 0 /\ max = 0 /\ rate = 0 /\ elem_sz = 0 /\ sig = 0 /\ gc = FALSE
    /\ alloc = 0
    /\ elems = <<>>
    /\ nextId = 1
    /\ hooked = [i \in Ids |-> 0]
    /\ last = NoCall
    /\ OtherIdle

(* The hook calls of log, added to the per-payload tally.                  *)
Tally(h, log) ==
    [i \in DOMAIN h |-> h[i] + Cardinality({k \in 1..Len(log) : log[k].e = i})]

(* The variables after a call with result r.                               *)
Commit(r, op, m, sz) ==
    /\ pp' = r.arr.pp
    /\ count' = r.arr.count
    /\ max' = r.arr.max
    /\ rate' = r.arr.rate
    /\ elem_sz' = r.arr.elem_sz
    /\ sig' = r.arr.sig
    /\ gc' = r.arr.gc
    /\ alloc' = r.arr.alloc
    /\ elems' = r.arr.elems
    /\ hooked' = Tally(hooked, r.log)
    /\ last' = [op |-> op, rc |-> r.rc, m |-> m, sz |-> sz, log |-> r.log]
    /\ UNCHANGED otherState

(* What the nondeterministic inputs of a call range over: realloc fails or *)
(* succeeds, and on success returns the old address or another one; the   *)
(* fate of slots written past the end of the block matters only when there *)
(* are such slots.                                                         *)
ReallocAddrs(ok) == IF ok THEN Addrs ELSE {pp}
OobFates == IF count > alloc THEN BOOLEAN ELSE {TRUE}

New ==
    /\ phase = "init"
    /\ \E sz \in ElemSizes, m \in -1..MaxCap, g \in BOOLEAN, ok \in BOOLEAN :
       \E addr \in (IF ok /\ m > 0 THEN Addrs ELSE {NULL}) :
         LET r == pak__arr_new_gc(sz, m, g, ok, addr)
         IN  /\ Commit(r, "new", m, sz)
             /\ phase' = IF r.rc = 0 THEN "live" ELSE "init"
    /\ UNCHANGED nextId

Resize ==
    /\ phase = "live"
    /\ \E m \in -1..MaxCap, ok \in BOOLEAN :
       \E addr \in ReallocAddrs(ok), keep \in OobFates :
         Commit(pak__arr_resize(Arr, m, ok, addr, keep), "resize", m, 0)
    /\ UNCHANGED <<phase, nextId>>

Expand ==
    /\ phase = "live"
    /\ max + rate <= MaxCap
    /\ \E ok \in BOOLEAN :
       \E addr \in ReallocAddrs(ok), keep \in OobFates :
         Commit(pak__arr_expand(Arr, ok, addr, keep), "expand", 0, 0)
    /\ UNCHANGED <<phase, nextId>>

Contract ==
    /\ phase = "live"
    /\ \E ok \in BOOLEAN :
       \E addr \in ReallocAddrs(ok), keep \in OobFates :
         Commit(pak__arr_contract(Arr, ok, addr, keep), "contract", 0, 0)
    /\ UNCHANGED <<phase, nextId>>

Push ==
    /\ phase = "live"
    /\ nextId <= MaxIds
    /\ count >= max => max + rate <= MaxCap
    /\ \E sz \in ElemSizes, ok \in (IF count >= max THEN BOOLEAN ELSE {TRUE}) :
       \E addr \in (IF count >= max THEN ReallocAddrs(ok) ELSE {pp}),
          keep \in (IF count >= max THEN OobFates ELSE {TRUE}),
          oob \in (IF count >= alloc THEN {nextId, GARBAGE} ELSE {nextId}) :
         LET r == pak__arr_push(Arr, sz, nextId, ok, addr, keep, oob)
         IN  /\ Commit(r, "push", 0, sz)
             /\ nextId' = IF r.rc = 0 THEN nextId + 1 ELSE nextId
    /\ UNCHANGED phase

Pop ==
    /\ phase = "live"
    /\ \E ok \in BOOLEAN :
       \E addr \in ReallocAddrs(ok), keep \in OobFates :
         Commit(pak__arr_pop(Arr, ok, addr, keep), "pop", 0, 0)
    /\ UNCHANGED <<phase, nextId>>

Free ==
    /\ phase \in {"live", "freed"}
    /\ LET r == pak__arr_free(Arr)
       IN  /\ Commit(r, "free", 0, 0)
           /\ phase' = IF r.rc = 0 THEN "freed" ELSE phase
    /\ UNCHANGED nextId

Next == New \/ Resize \/ Expand \/ Contract \/ Push \/ Pop \/ Free

Spec == Init /\ [][Next]_vars

(* ---- runs of pushes and pops only, without allocation failure ---- *)
(* The scenarios of src/unnamed/part_004: an array is created with a       *)
(* positive capacity and then only pushed to (with the right element size) *)
(* and popped from; malloc and realloc succeed.  In these runs last.m      *)
(* records, for a push or a pop, the capacity the array had before the     *)
(* call.                                                                   *)
SeqMaxCap == 8       \* largest capacity in these runs
SeqMaxIds == 5       \* number of pushes in these runs

InitSeq ==
    /\ phase = "init"
    /\ pp = NULL
    /\ count = 0 /\ max = 0 /\ rate = 0 /\ elem_sz = 0 /\ sig = 0 /\ gc = FALSE
    /\ alloc = 0
    /\ elems = <<>>
    /\ nextId = 1
    /\ hooked = [i \in 1..SeqMaxIds |-> 0]
    /\ last = NoCall
    /\ OtherIdle

SeqNew ==
    /\ phase = "init"
    /\ \E sz \in ElemSizes, m \in 1..SeqMaxCap, g \in BOOLEAN, addr \in Addrs :
         Commit(pak__arr_new_gc(sz, m, g, TRUE, addr), "new", m, sz)
    /\ phase' = "live"
    /\ UNCHANGED nextId

SeqPush ==
    /\ phase = "live"
    /\ nextId <= SeqMaxIds
    /\ count >= max => max + rate <= SeqMaxCap
    /\ \E addr \in (IF count >= max THEN Addrs ELSE {pp}) :
         LET r == pak__arr_push(Arr, elem_sz, nextId, TRUE, addr, TRUE, nextId)
         IN  /\ Commit(r, "push", max, elem_sz)
             /\ nextId' = IF r.rc = 0 THEN nextId + 1 ELSE nextId
    /\ UNCHANGED phase

SeqPop ==
    /\ phase = "live"
    /\ \E addr \in Addrs :
         Commit(pak__arr_pop(Arr, TRUE, addr, TRUE), "pop", max, 0)
    /\ UNCHANGED <<phase, nextId>>

NextSeq == SeqNew \/ SeqPush \/ SeqPop

SpecSeq == InitSeq /\ [][NextSeq]_vars

(* ---- calls through a handle whose block does not carry the signature -- *)
(* The handle designates a block that pak__arr_new did not make (or whose  *)
(* header was overwritten): the bytes in front of it, which the engine     *)
(* reads as the header, hold anything, and the signature field holds a     *)
(* value other than PAK_ARR_SIGNATURE.  Every entry point that takes a     *)
(* handle is then called on it.                                            *)
SigMaxCap == 2       \* largest count, max and rate read from such a header
BadSigs == {0, PAK_ARR_SIGNATURE + 1}

InitSig ==
    /\ phase = "live"
    /\ pp \in Addrs
    /\ count \in 0..SigMaxCap
    /\ max \in 0..SigMaxCap
    /\ rate \in 0..SigMaxCap
    /\ elem_sz \in ElemSizes
    /\ sig \in BadSigs
    /\ gc \in BOOLEAN
    /\ alloc = max
    /\ elems = [i \in 1..count |-> GARBAGE]
    /\ nextId = 1
    /\ hooked = [i \in Ids |-> 0]
    /\ last = NoCall
    /\ OtherIdle

NextSig == Resize \/ Expand \/ Contract \/ Push \/ Pop \/ Free

SpecSig == InitSig /\ [][NextSig]_vars

(* ---- which address a call uses after it has reallocated ---- *)
(* In these runs malloc and realloc succeed, and realloc returns the old   *)
(* address or another one.  The call record has two more fields: addr, the *)
(* address the realloc of the call returned (NULL when the call did not    *)
(* reallocate), and via, the addresses through which the call read or      *)
(* wrote the header or the elements after that realloc.                    *)

(* pak__arr_resize after pak_realloc: only the handle variable is written; *)
(* pak__arr_expand and pak__arr_contract return what resize returns.       *)
ResizeVia(a, r) == {}

(* pak__arr_push of src/pak.h after the expand: arr is read again from the *)
(* handle variable, and head->count++ and the memcpy go through it.        *)
PushVia(a, r) == {r.arr.pp}

(* pak__arr_push of src/unnamed/part_000 after the expand: the header is   *)
(* taken from arr, which was read from the handle variable on entry.       *)
PushVia_000(a, r) == {a.pp}

(* pak__arr_pop after the contract: head is computed again from the handle *)
(* variable and not used.                                                  *)
PopVia(a, r) == {}

(* pak__arr_push of src/unnamed/part_000.  When the expand has moved the   *)
(* block, head->count++ and the memcpy act on the released block: the      *)
(* block the handle variable designates is not written (the call returns 0 *)
(* all the same), or the access stops the program (dies).                  *)
pak__arr_push_000(a, sz, e, ok, addr, keep, oob, dies) ==
    IF a.sig # PAK_ARR_SIGNATURE THEN Result(-1, a, <<>>)
    ELSE IF ~PushSizeOk(a, sz) THEN Result(-1, a, <<>>)
    ELSE IF a.count >= a.max
         THEN LET r == pak__arr_expand(a, ok, addr, keep)
              IN  IF r.rc # 0 THEN Result(-1, r.arr, r.log)
                  ELSE IF r.arr.pp = a.pp
                       THEN Result(0, PushStore(r.arr, e, oob), r.log)
                       ELSE Result(IF dies THEN 1 ELSE 0, r.arr, r.log)
         ELSE Result(0, PushStore(a, e, oob), <<>>)

NoCallVia == [op |-> "none", rc |-> 0, m |-> 0, sz |-> 0, log |-> <<>>,
              addr |-> NULL, via |-> {}]

InitHandle ==
    /\ phase = "init"
    /\ pp = NULL
    /\ count = 0 /\ max = 0 /\ rate = 0 /\ elem_sz = 0 /\ sig = 0 /\ gc = FALSE
    /\ alloc = 0
    /\ elems = <<>>
    /\ nextId = 1
    /\ hooked = [i \in Ids |-> 0]
    /\ last = NoCallVia
    /\ OtherIdle

(* The variables after a call with result r whose realloc, if any,         *)
(* returned addr and which then used the addresses via.                    *)
CommitVia(r, op, m, sz, addr, via) ==
    /\ pp' = r.arr.pp
    /\ count' = r.arr.count
    /\ max' = r.arr.max
    /\ rate' = r.arr.rate
    /\ elem_sz' = r.arr.elem_sz
    /\ sig' = r.arr.sig
    /\ gc' = r.arr.gc
    /\ alloc' = r.arr.alloc
    /\ elems' = r.arr.elems
    /\ hooked' = Tally(hooked, r.log)
    /\ last' = [op |-> op, rc |-> r.rc, m |-> m, sz |-> sz, log |-> r.log,
                addr |-> addr, via |-> via]
    /\ UNCHANGED otherState

HNew ==
    /\ phase = "init"
    /\ \E sz \in ElemSizes, m \in 1..MaxCap, g \in BOOLEAN, addr \in Addrs :
         CommitVia(pak__arr_new_gc(sz, m, g, TRUE, addr), "new", m, sz, NULL, {})
    /\ phase' = "live"
    /\ UNCHANGED nextId

HResize ==
    /\ phase = "live"
    /\ \E m \in 0..MaxCap, addr \in Addrs :
         LET r == pak__arr_resize(Arr, m, TRUE, addr, TRUE)
         IN  CommitVia(r, "resize", m, 0,
                       IF r.rc = 0 THEN addr ELSE NULL,
                       IF r.rc = 0 THEN ResizeVia(Arr, r) ELSE {})
    /\ UNCHANGED <<phase, nextId>>

HExpand ==
    /\ phase = "live"
    /\ max + rate <= MaxCap
    /\ \E addr \in Addrs :
         LET r == pak__arr_expand(Arr, TRUE, addr, TRUE)
         IN  CommitVia(r, "expand", 0, 0,
                       IF r.rc = 0 THEN addr ELSE NULL,
                       IF r.rc = 0 THEN ResizeVia(Arr, r) ELSE {})
    /\ UNCHANGED <<phase, nextId>>

HContract ==
    /\ phase = "live"
    /\ \E addr \in Addrs :
         LET r == pak__arr_contract(Arr, TRUE, addr, TRUE)
         IN  CommitVia(r, "contract", 0, 0,
                       IF r.rc = 0 THEN addr ELSE NULL,
                       IF r.rc = 0 THEN ResizeVia(Arr, r) ELSE {})
    /\ UNCHANGED <<phase, nextId>>

HPush ==
    /\ phase = "live"
    /\ nextId <= MaxIds
    /\ count >= max => max + rate <= MaxCap
    /\ \E addr \in (IF count >= max THEN Addrs ELSE {pp}) :
         LET r == pak__arr_push(Arr, elem_sz, nextId, TRUE, addr, TRUE, nextId)
             grew == count >= max /\ r.rc = 0
         IN  /\ CommitVia(r, "push", 0, elem_sz,
                          IF grew THEN addr ELSE NULL,
                          IF grew THEN PushVia(Arr, r) ELSE {})
             /\ nextId' = IF r.rc = 0 THEN nextId + 1 ELSE nextId
    /\ UNCHANGED phase

HPush_000 ==
    /\ phase = "live"
    /\ nextId <= MaxIds
    /\ count >= max => max + rate <= MaxCap
    /\ \E addr \in (IF count >= max THEN Addrs ELSE {pp}) :
       \E dies \in (IF addr # pp THEN BOOLEAN ELSE {FALSE}) :
         LET r == pak__arr_push_000(Arr, elem_sz, nextId, TRUE, addr, TRUE,
                                    nextId, dies)
             grew == count >= max /\ r.rc >= 0
         IN  /\ CommitVia(r, "push", 0, elem_sz,
                          IF grew THEN addr ELSE NULL,
                          IF grew THEN PushVia_000(Arr, r) ELSE {})
             /\ nextId' = IF r.rc = 0 THEN nextId + 1 ELSE nextId
             /\ phase' = IF r.rc = 1 THEN "stopped" ELSE phase

HPop ==
    /\ phase = "live"
    /\ \E addr \in (IF count > 0 /\ count - 1 < max - rate THEN Addrs ELSE {pp}) :
         LET r == pak__arr_pop(Arr, TRUE, addr, TRUE)
             shrank == r.arr.max # max
         IN  CommitVia(r, "pop", 0, 0,
                       IF shrank THEN addr ELSE NULL,
                       IF shrank THEN PopVia(Arr, r) ELSE {})
    /\ UNCHANGED <<phase, nextId>>

(* The engine of src/pak.h.                                                *)
NextHandle == HNew \/ HResize \/ HExpand \/ HContract \/ HPush \/ HPop

SpecHandle == InitHandle /\ [][NextHandle]_vars

(* The engine of src/unnamed/part_000, which differs in its push.          *)
NextHandle_000 == HNew \/ HResize \/ HExpand \/ HContract \/ HPush_000 \/ HPop

SpecHandle_000 == InitHandle /\ [][NextHandle_000]_vars

(* ---- the list library: pak_list of src/pak.h ---- *)
(* A node is known by its number k, the k-th node ever allocated, and      *)
(* nodes[k] is its structure; NULL is no node.  The allocations are named  *)
(* <<"list", 0>>, <<"node", k>> and <<"data", k>>.  The payload of a push  *)
(* is its number, as for the array; a hook call on the data of node k is   *)
(* logged as [idx |-> k, e |-> payload].                                   *)
ListMaxIds == 4      \* number of pushes and unshifts in a run

(* The list library's state as one value.                                  *)
LW == [list |-> list, nodes |-> nodes, heap |-> lheap]

LResult(rc, w, log) == [rc |-> rc, lw |-> w, log |-> log]

(* pak__list_new(elem_sz) followed by the gc assignment of                 *)
(* pak__list_new_gc: ok says whether malloc succeeds.                      *)
pak__list_new_gc(w, sz, g, ok) ==
    IF ~ok THEN LResult(-1, w, <<>>)
    ELSE LResult(0, [w EXCEPT !.list = [count |-> 0, elem_sz |-> sz, gc |-> g,
                                        first |-> NULL, last |-> NULL],
                              !.heap = w.heap \cup {<<"list", 0>>}], <<>>)

(* The linking of pak__list_unshift done by a push: at the front.          *)
LinkBack_AtFront(w, k, e) ==
    IF w.list.count = 0
    THEN [w EXCEPT !.nodes = Append(w.nodes, [data |-> e, next |-> NULL, prev |-> NULL]),
                   !.list.first = k,
                   !.list.last = k]
    ELSE [w EXCEPT !.nodes = Append([w.nodes EXCEPT ![w.list.first].prev = k],
                                    [data |-> e, next |-> w.list.first, prev |-> NULL]),
                   !.list.first = k]

(* if (list->count == 0) { first = last = node } else { last->next = node; *)
(* node->prev = last; last = node } of pak__list_push.                     *)
LinkBack(w, k, e) ==
    IF w.list.count = 0
    THEN [w EXCEPT !.nodes = Append(w.nodes, [data |-> e, next |-> NULL, prev |-> NULL]),
                   !.list.first = k,
                   !.list.last = k]
    ELSE [w EXCEPT !.nodes = Append([w.nodes EXCEPT ![w.list.last].next = k],
                                    [data |-> e, next |-> NULL, prev |-> w.list.last]),
                   !.list.last = k]

(* The linking of an unshift that leaves first->prev as it was.            *)
LinkFront_NoBackLink(w, k, e) ==
    IF w.list.count = 0
    THEN [w EXCEPT !.nodes = Append(w.nodes, [data |-> e, next |-> NULL, prev |-> NULL]),
                   !.list.first = k,
                   !.list.last = k]
    ELSE [w EXCEPT !.nodes = Append(w.nodes,
                                    [data |-> e, next |-> w.list.first, prev |-> NULL]),
                   !.list.first = k]

(* The same in pak__list_unshift: first->prev = node; node->next = first;  *)
(* first = node.                                                           *)
LinkFront(w, k, e) ==
    IF w.list.count = 0
    THEN [w EXCEPT !.nodes = Append(w.nodes, [data |-> e, next |-> NULL, prev |-> NULL]),
                   !.list.first = k,
                   !.list.last = k]
    ELSE [w EXCEPT !.nodes = Append([w.nodes EXCEPT ![w.list.first].prev = k],
                                    [data |-> e, next |-> w.list.first, prev |-> NULL]),
                   !.list.first = k]

(* pak__list_push(list, sz, p): okNode and okData say whether the two      *)
(* mallocs succeed; on failure what was allocated is released again.       *)
pak__list_push(w, sz, e, okNode, okData) ==
    IF sz # w.list.elem_sz THEN LResult(-1, w, <<>>)
    ELSE IF ~okNode THEN LResult(-1, w, <<>>)
    ELSE IF ~okData THEN LResult(-1, w, <<>>)
    ELSE LET k  == Len(w.nodes) + 1
             w1 == LinkBack(w, k, e)
         IN  LResult(0, [w1 EXCEPT !.list.count = w.list.count + 1,
                                   !.heap = w.heap \cup {<<"node", k>>, <<"data", k>>}],
                     <<>>)

(* pak__list_unshift(list, sz, p) *)
pak__list_unshift(w, sz, e, okNode, okData) ==
    IF sz # w.list.elem_sz THEN LResult(-1, w, <<>>)
    ELSE IF ~okNode THEN LResult(-1, w, <<>>)
    ELSE IF ~okData THEN LResult(-1, w, <<>>)
    ELSE LET k  == Len(w.nodes) + 1
             w1 == LinkFront(w, k, e)
         IN  LResult(0, [w1 EXCEPT !.list.count = w.list.count + 1,
                                   !.heap = w.heap \cup {<<"node", k>>, <<"data", k>>}],
                     <<>>)

(* pak_list_pop(list): returns nothing; rc -1 here means that an assertion *)
(* jumped to fail.  The data block of the last node is released, the node  *)
(* structure is not.                                                       *)
pak_list_pop(w) ==
    IF ~(w.list.count > 0) THEN LResult(-1, w, <<>>)
    ELSE IF w.list.last = NULL THEN LResult(-1, w, <<>>)
    ELSE LET l    == w.list.last
             prev == w.nodes[l].prev
             log  == IF w.list.gc THEN <<[idx |-> l, e |-> w.nodes[l].data]>> ELSE <<>>
             w1   == IF prev # NULL
                     THEN [w EXCEPT !.list.last = prev,
                                    !.nodes[prev].next = NULL]
                     ELSE [w EXCEPT !.list.first = NULL,
                                    !.list.last = NULL]
         IN  LResult(0, [w1 EXCEPT !.list.count = w.list.count - 1,
                                   !.heap = w.heap \ {<<"data", l>>}], log)

(* pak_list_shift(list) *)
pak_list_shift(w) ==
    IF ~(w.list.count > 0) THEN LResult(-1, w, <<>>)
    ELSE IF w.list.first = NULL THEN LResult(-1, w, <<>>)
    ELSE LET f    == w.list.first
             next == w.nodes[f].next
             log  == IF w.list.gc THEN <<[idx |-> f, e |-> w.nodes[f].data]>> ELSE <<>>
             w1   == IF next # NULL
                     THEN [w EXCEPT !.list.first = next,
                                    !.nodes[next].prev = NULL]
                     ELSE [w EXCEPT !.list.first = NULL,
                                    !.list.last = NULL]
         IN  LResult(0, [w1 EXCEPT !.list.count = w.list.count - 1,
                                   !.heap = w.heap \ {<<"data", f>>}], log)

(* for (i = 0; i < list->count; i++) pak_list_pop(list): the bound is read *)
(* again on every round, after the pop has decremented it.                 *)
RECURSIVE ListFreeLoop(_, _, _)
ListFreeLoop(w, i, log) ==
    IF i < w.list.count
    THEN LET r == pak_list_pop(w)
         IN  ListFreeLoop(r.lw, i + 1, log \o r.log)
    ELSE LResult(0, w, log)

(* A pak_list_free without the assertion on the pointer.                   *)
pak_list_free_NoNullCheck(p, w) ==
    LET r == ListFreeLoop(w, 0, <<>>)
    IN  [rc |-> 0,
         lw |-> [r.lw EXCEPT !.heap = r.lw.heap \ {<<"list", 0>>}],
         log |-> r.log,
         pp |-> NULL]

(* pak_list_free(pp): p is the value of the caller's pointer variable; the *)
(* result carries the new value of that variable as pp.                    *)
pak_list_free(p, w) ==
    IF p = NULL THEN [rc |-> -1, lw |-> w, log |-> <<>>, pp |-> p]
    ELSE LET r == ListFreeLoop(w, 0, <<>>)
         IN  [rc |-> 0,
              lw |-> [r.lw EXCEPT !.heap = r.lw.heap \ {<<"list", 0>>}],
              log |-> r.log,
              pp |-> NULL]

(* pak_list_foreach(L, N): the nodes the loop body runs on, in order.      *)
(* for (N = L->first; N != NULL && N->next != NULL; N = N->next)           *)
RECURSIVE ForeachFrom(_, _, _)
ForeachFrom(w, n, seen) ==
    IF n # NULL /\ w.nodes[n].next # NULL
    THEN ForeachFrom(w, w.nodes[n].next, Append(seen, n))
    ELSE seen

pak_list_foreach(w) == ForeachFrom(w, w.list.first, <<>>)

(* pak_list_foreach_back(L, N)                                             *)
(* for (N = L->last; N != NULL && N->prev != NULL; N = N->prev)            *)
RECURSIVE ForeachBackFrom(_, _, _)
ForeachBackFrom(w, n, seen) ==
    IF n # NULL /\ w.nodes[n].prev # NULL
    THEN ForeachBackFrom(w, w.nodes[n].prev, Append(seen, n))
    ELSE seen

pak_list_foreach_back(w) == ForeachBackFrom(w, w.list.last, <<>>)

(* The element values reached from list->first by following next (at most *)
(* fuel nodes, so that a chain that does not end is cut).                  *)
RECURSIVE ValuesFrom(_, _, _)
ValuesFrom(w, n, fuel) ==
    IF n = NULL \/ fuel = 0 THEN <<>>
    ELSE <<w.nodes[n].data>> \o ValuesFrom(w, w.nodes[n].next, fuel - 1)

ListValues(w) == ValuesFrom(w, w.list.first, Len(w.nodes) + 1)

(* The nodes reached from node n by following next, in order (at most     *)
(* fuel nodes).                                                            *)
RECURSIVE NextChain(_, _, _)
NextChain(w, n, fuel) ==
    IF n = NULL \/ fuel = 0 THEN <<>>
    ELSE <<n>> \o NextChain(w, w.nodes[n].next, fuel - 1)

(* The nodes reached from node n by following prev, in order.              *)
RECURSIVE PrevChain(_, _, _)
PrevChain(w, n, fuel) ==
    IF n = NULL \/ fuel = 0 THEN <<>>
    ELSE <<n>> \o PrevChain(w, w.nodes[n].prev, fuel - 1)

(* The variables after a list call with result r.                          *)
LCommit(r, op, e, sz) ==
    /\ list' = r.lw.list
    /\ nodes' = r.lw.nodes
    /\ lheap' = r.lw.heap
    /\ hooked' = Tally(hooked, r.log)
    /\ last' = [op |-> op, rc |-> r.rc, m |-> e, sz |-> sz, log |-> r.log]
    /\ UNCHANGED <<phase, arrayState, dict, pairs>>

InitList ==
    /\ phase = "init"
    /\ pp = NULL
    /\ count = 0 /\ max = 0 /\ rate = 0 /\ elem_sz = 0 /\ sig = 0 /\ gc = FALSE
    /\ alloc = 0
    /\ elems = <<>>
    /\ nextId = 1
    /\ hooked = [i \in 1..ListMaxIds |-> 0]
    /\ last = NoCall
    /\ OtherIdle

ListNew ==
    /\ lpp = NULL
    /\ list = NoList
    /\ \E sz \in ElemSizes, g \in BOOLEAN, ok \in BOOLEAN :
         LET r == pak__list_new_gc(LW, sz, g, ok)
         IN  /\ LCommit(r, "list_new", 0, sz)
             /\ lpp' = IF r.rc = 0 THEN 1 ELSE NULL
    /\ UNCHANGED nextId

ListPush ==
    /\ lpp # NULL
    /\ nextId <= ListMaxIds
    /\ \E sz \in ElemSizes, okNode \in BOOLEAN :
       \E okData \in (IF okNode THEN BOOLEAN ELSE {TRUE}) :
         LET r == pak__list_push(LW, sz, nextId, okNode, okData)
         IN  /\ LCommit(r, "list_push", nextId, sz)
             /\ nextId' = IF r.rc = 0 THEN nextId + 1 ELSE nextId
    /\ UNCHANGED lpp

ListUnshift ==
    /\ lpp # NULL
    /\ nextId <= ListMaxIds
    /\ \E sz \in ElemSizes, okNode \in BOOLEAN :
       \E okData \in (IF okNode THEN BOOLEAN ELSE {TRUE}) :
         LET r == pak__list_unshift(LW, sz, nextId, okNode, okData)
         IN  /\ LCommit(r, "list_unshift", nextId, sz)
             /\ nextId' = IF r.rc = 0 THEN nextId + 1 ELSE nextId
    /\ UNCHANGED lpp

ListPop ==
    /\ lpp # NULL
    /\ LCommit(pak_list_pop(LW), "list_pop", 0, 0)
    /\ UNCHANGED <<lpp, nextId>>

ListShift ==
    /\ lpp # NULL
    /\ LCommit(pak_list_shift(LW), "list_shift", 0, 0)
    /\ UNCHANGED <<lpp, nextId>>

(* A traversal with pak_list_foreach or pak_list_foreach_back whose body   *)
(* notes the node it is given: the call record holds the nodes in order.   *)
ListForeach ==
    /\ lpp # NULL
    /\ last' = [op |-> "list_foreach", rc |-> 0, m |-> 0, sz |-> 0,
                log |-> pak_list_foreach(LW)]
    /\ UNCHANGED <<phase, arrayState, nextId, hooked, otherState>>

ListForeachBack ==
    /\ lpp # NULL
    /\ last' = [op |-> "list_foreach_back", rc |-> 0, m |-> 0, sz |-> 0,
                log |-> pak_list_foreach_back(LW)]
    /\ UNCHANGED <<phase, arrayState, nextId, hooked, otherState>>

ListFree ==
    /\ list # NoList
    /\ LET r == pak_list_free(lpp, LW)
       IN  /\ LCommit(r, "list_free", 0, 0)
           /\ lpp' = r.pp
    /\ UNCHANGED nextId

NextList ==
    \/ ListNew \/ ListPush \/ ListUnshift \/ ListPop \/ ListShift
    \/ ListForeach \/ ListForeachBack \/ ListFree

SpecList == InitList /\ [][NextList]_vars

(* ---- a program that owns an array and a list and frees both ---- *)
(* The array and the list are created, pushed to and freed, each through   *)
(* its own variable, and freed again through the same variable.            *)
NextFree == New \/ Push \/ Free \/ ListNew \/ ListPush \/ ListFree

SpecFree == InitList /\ [][NextFree]_vars

(* ---- the dictionary library: PAK_INIT_DICT of src/pak.h ---- *)
(* The instance is the int_dict of the documentation: keys are strings     *)
(* copied with strdup (which may fail) and released with free, values are  *)
(* ints copied by a cast (which cannot fail) and not released.  A key is   *)
(* known by its number and HASH gives its hash value; a pair is known by   *)
(* its number k, the k-th pair ever linked, and pairs[k] is its structure, *)
(* with live telling whether it has not been released; what a released     *)
(* pair holds is of no account and is written as Released.  Bucket i of    *)
(* the C array is buckets[i + 1].                                          *)
DictMaxPairs == 3    \* number of successful inserts in a run

BucketCounts == {1, 2, 3}   \* the bucket counts given to int_dict_new
Released == [key |-> 0, val |-> 0, next |-> 0, live |-> FALSE]

Keys == {1, 2, 3}    \* the keys "ABC", "DEF", "GHI" of the documentation
Vals == {1, 2}       \* the values given to insert and set

(* The dictionary library's state as one value.                            *)
DW == [dict |-> dict, pairs |-> pairs]

DResult(rc, w) == [rc |-> rc, dw |-> w]

(* HASH(KEY_ACCESS(key), KEY_COUNT(key)): the hash value of key number k.  *)
HASH(k) == k

(* loc = HASH(...) % dict->max *)
Loc(w, k) == HASH(k) % w.dict.max

(* NAME##_new(sz): okDict and okBuckets say whether the mallocs succeed.   *)
int_dict_new(w, sz, okDict, okBuckets) ==
    IF ~okDict THEN DResult(-1, w)
    ELSE IF ~okBuckets THEN DResult(-1, w)
    ELSE DResult(0, [w EXCEPT !.dict = [max |-> sz, rate |-> sz, busy |-> 0,
                                        buckets |-> [i \in 1..sz |-> NULL]]])

(* A collision walk that compares only the first pair of the chain with    *)
(* the new key.                                                            *)
RECURSIVE InsertWalk_HeadOnly(_, _, _, _)
InsertWalk_HeadOnly(w, curr, k, head) ==
    IF head /\ w.pairs[curr].key = k THEN NULL
    ELSE IF w.pairs[curr].next # NULL
         THEN InsertWalk_HeadOnly(w, w.pairs[curr].next, k, FALSE)
         ELSE curr

(* for (;;) { pak_assert(!KEY_CMP(curr->key, pair->key)); if (curr->next)  *)
(* curr = curr->next; else break; }: the last pair of the chain, or NULL   *)
(* when the assertion jumps to fail.  head is TRUE on the first pair.      *)
RECURSIVE InsertWalk(_, _, _, _)
InsertWalk(w, curr, k, head) ==
    IF w.pairs[curr].key = k THEN NULL
    ELSE IF w.pairs[curr].next # NULL
         THEN InsertWalk(w, w.pairs[curr].next, k, FALSE)
         ELSE curr

(* NAME##_insert(dict, key, val): okPair says whether the malloc of the    *)
(* pair succeeds, okKey whether KEY_COPY does; on failure what was         *)
(* allocated is released again.                                            *)
int_dict_insert(w, k, v, okPair, okKey) ==
    IF ~okPair THEN DResult(-1, w)
    ELSE IF ~okKey THEN DResult(-1, w)
    ELSE LET id   == Len(w.pairs) + 1
             loc  == Loc(w, k)
             pair == [key |-> k, val |-> v, next |-> NULL, live |-> TRUE]
         IN  IF w.dict.buckets[loc + 1] = NULL
             THEN DResult(0, [w EXCEPT !.pairs = Append(w.pairs, pair),
                                       !.dict.buckets[loc + 1] = id,
                                       !.dict.busy = w.dict.busy + 1])
             ELSE LET t == InsertWalk(w, w.dict.buckets[loc + 1], k, TRUE)
                  IN  IF t = NULL THEN DResult(-1, w)
                      ELSE DResult(0, [w EXCEPT !.pairs =
                                         Append([w.pairs EXCEPT ![t].next = id], pair)])

(* An unlinking that cuts the chain behind the predecessor.                *)
Unlink_DropsRest(w, loc, curr, prev) ==
    LET tmp == w.pairs[curr].next
        w1  == [w EXCEPT !.pairs[curr] = Released]
    IN  IF prev # NULL
        THEN [w1 EXCEPT !.pairs[prev].next = NULL]
        ELSE [w1 EXCEPT !.dict.buckets[loc + 1] = tmp,
                        !.dict.busy = IF tmp = NULL THEN w.dict.busy - 1
                                                   ELSE w.dict.busy]

(* An unlinking that leaves busy as it was.                                *)
Unlink_KeepsBusy(w, loc, curr, prev) ==
    LET tmp == w.pairs[curr].next
        w1  == [w EXCEPT !.pairs[curr] = Released]
    IN  IF prev # NULL
        THEN [w1 EXCEPT !.pairs[prev].next = tmp]
        ELSE [w1 EXCEPT !.dict.buckets[loc + 1] = tmp]

(* The body of if (KEY_CMP(curr->key, cpy)) in NAME##_remove: the pair is  *)
(* released and its successor takes its place.                             *)
Unlink(w, loc, curr, prev) ==
    LET tmp == w.pairs[curr].next
        w1  == [w EXCEPT !.pairs[curr] = Released]
    IN  IF prev # NULL
        THEN [w1 EXCEPT !.pairs[prev].next = tmp]
        ELSE [w1 EXCEPT !.dict.buckets[loc + 1] = tmp,
                        !.dict.busy = IF tmp = NULL THEN w.dict.busy - 1
                                                   ELSE w.dict.busy]

(* while (curr) { if (KEY_CMP(...)) { ...; break; } prev = curr; curr =     *)
(* curr->next; } of NAME##_remove.                                         *)
RECURSIVE RemoveWalk(_, _, _, _, _)
RemoveWalk(w, loc, curr, prev, k) ==
    IF curr = NULL THEN w
    ELSE IF w.pairs[curr].key = k THEN Unlink(w, loc, curr, prev)
    ELSE RemoveWalk(w, loc, w.pairs[curr].next, curr, k)

(* NAME##_remove(dict, key): returns nothing; okKey says whether KEY_COPY  *)
(* succeeds.                                                               *)
int_dict_remove(w, k, okKey) ==
    IF ~okKey THEN w
    ELSE RemoveWalk(w, Loc(w, k), w.dict.buckets[Loc(w, k) + 1], NULL, k)

(* while (curr) { if (KEY_CMP(curr->key, cpy)) return curr; curr =          *)
(* curr->next; } return NULL; of NAME##_get.                                *)
RECURSIVE GetWalk(_, _, _)
GetWalk(w, curr, k) ==
    IF curr = NULL THEN NULL
    ELSE IF w.pairs[curr].key = k THEN curr
    ELSE GetWalk(w, w.pairs[curr].next, k)

(* NAME##_get(dict, key): the pair found, or NULL.                         *)
int_dict_get(w, k, okKey) ==
    IF ~okKey THEN NULL
    ELSE GetWalk(w, w.dict.buckets[Loc(w, k) + 1], k)

(* NAME##_set(dict, key, val) *)
int_dict_set(w, k, v, okKey) ==
    LET pair == int_dict_get(w, k, okKey)
    IN  IF pair = NULL THEN DResult(-1, w)
        ELSE DResult(0, [w EXCEPT !.pairs[pair].val = v])

(* The variables after a dictionary call: the call record holds the key    *)
(* and value given, whether the key copy of the call succeeded, and for a  *)
(* get the pair returned.                                                  *)
DCommit(w, op, rc, k, v, copied, pair) ==
    /\ dict' = w.dict
    /\ pairs' = w.pairs
    /\ last' = [op |-> op, rc |-> rc, key |-> k, val |-> v,
                copied |-> copied, pair |-> pair]
    /\ UNCHANGED <<phase, arrayState, nextId, hooked, lpp, list, nodes, lheap>>

InitDict ==
    /\ phase = "init"
    /\ pp = NULL
    /\ count = 0 /\ max = 0 /\ rate = 0 /\ elem_sz = 0 /\ sig = 0 /\ gc = FALSE
    /\ alloc = 0
    /\ elems = <<>>
    /\ nextId = 1
    /\ hooked = [i \in Ids |-> 0]
    /\ last = NoCall
    /\ OtherIdle

DictNew ==
    /\ dict = NoDict
    /\ \E sz \in BucketCounts, okDict \in BOOLEAN :
       \E okBuckets \in (IF okDict THEN BOOLEAN ELSE {TRUE}) :
         LET r == int_dict_new(DW, sz, okDict, okBuckets)
         IN  DCommit(r.dw, "dict_new", r.rc, 0, sz, TRUE, NULL)

DictInsert ==
    /\ dict # NoDict
    /\ Len(pairs) < DictMaxPairs
    /\ \E k \in Keys, v \in Vals, okPair \in BOOLEAN :
       \E okKey \in (IF okPair THEN BOOLEAN ELSE {FALSE}) :
         LET r == int_dict_insert(DW, k, v, okPair, okKey)
         IN  DCommit(r.dw, "dict_insert", r.rc, k, v, okKey, NULL)

DictRemove ==
    /\ dict # NoDict
    /\ \E k \in Keys, okKey \in BOOLEAN :
         DCommit(int_dict_remove(DW, k, okKey), "dict_remove", 0, k, 0, okKey, NULL)

DictGet ==
    /\ dict # NoDict
    /\ \E k \in Keys, okKey \in BOOLEAN :
         DCommit(DW, "dict_get", 0, k, 0, okKey, int_dict_get(DW, k, okKey))

DictSet ==
    /\ dict # NoDict
    /\ \E k \in Keys, v \in Vals, okKey \in BOOLEAN :
         LET r == int_dict_set(DW, k, v, okKey)
         IN  DCommit(r.dw, "dict_set", r.rc, k, v, okKey, NULL)

NextDict == DictNew \/ DictInsert \/ DictRemove \/ DictGet \/ DictSet

SpecDict == InitDict /\ [][NextDict]_vars

(* What the dictionary maps each key to: the value of the pair a get with  *)
(* a successful key copy finds, or NULL for none.                          *)
DictMap ==
    [k \in Keys |->
       IF dict = NoDict THEN NULL
       ELSE LET p == int_dict_get(DW, k, TRUE)
            IN  IF p = NULL THEN NULL ELSE pairs[p].val]

(* ---- capacities at the limit of int ---- *)
(* An array is created with any positive int as capacity and is then       *)
(* pushed to and expanded until max + rate no longer fits an int; malloc   *)
(* and realloc succeed.  last.m records the capacity before the call.      *)
InitWide ==
    /\ phase = "init"
    /\ pp = NULL
    /\ count = 0 /\ max = 0 /\ rate = 0 /\ elem_sz = 0 /\ sig = 0 /\ gc = FALSE
    /\ alloc = 0
    /\ elems = <<>>
    /\ nextId = 1
    /\ hooked = [i \in 1..INT_MAX |-> 0]
    /\ last = NoCall
    /\ OtherIdle

WideNew ==
    /\ phase = "init"
    /\ \E sz \in ElemSizes, m \in 1..INT_MAX, g \in BOOLEAN, addr \in Addrs :
         Commit(pak__arr_new_gc(sz, m, g, TRUE, addr), "new", m, sz)
    /\ phase' = "live"
    /\ UNCHANGED nextId

WideExpand ==
    /\ phase = "live"
    /\ \E addr \in Addrs :
         Commit(pak__arr_expand(Arr, TRUE, addr, TRUE), "expand", max, 0)
    /\ UNCHANGED <<phase, nextId>>

WidePush ==
    /\ phase = "live"
    /\ nextId <= INT_MAX
    /\ \E addr \in (IF count >= max THEN Addrs ELSE {pp}) :
         LET r == pak__arr_push(Arr, elem_sz, nextId, TRUE, addr, TRUE, nextId)
         IN  /\ Commit(r, "push", max, elem_sz)
             /\ nextId' = IF r.rc = 0 THEN nextId + 1 ELSE nextId
    /\ UNCHANGED phase

NextWide == WideNew \/ WideExpand \/ WidePush

SpecWide == InitWide /\ [][NextWide]_vars

(* ---- the claims ---- *)

(* C1: between calls, a live array has 0 <= count <= max, whatever calls   *)
(* (successful or failed) came before.                                     *)
C1_CountWithinCapacity ==
    phase = "live" => (0 <= count /\ count <= max)

(* A truncating resize with a hook has just run and left the array full.   *)
C1_Witness ==
    /\ phase = "live"
    /\ last.op = "resize"
    /\ Len(last.log) > 0
    /\ count = max

(* C2: the capacity of a live array is always > 0; no push, pop, contract, *)
(* expand or resize leaves it at zero or below.                            *)
C2_CapacityPositive ==
    phase = "live" => max > 0

(* A contract was called on an array of one growth increment and refused.  *)
C2_Witness ==
    /\ phase = "live"
    /\ last.op = "contract"
    /\ last.rc = -1
    /\ max = rate
    /\ alloc = max

(* C3: a successful push stores the value at index old count, adds one to  *)
(* count and leaves the elements before it as they were.                   *)
C3_PushAppends ==
    [][(last'.op = "push" /\ last'.rc = 0)
         => (count' = count + 1 /\ elems' = Append(elems, nextId))]_vars

(* C4: a successful resize(m) leaves max = m, count = min(old count, m)    *)
(* and the elements below that count as they were.                         *)
C4_ResizePost ==
    [][(last'.op = "resize" /\ last'.rc = 0)
         => LET n == IF count < last'.m THEN count ELSE last'.m
            IN  /\ max' = last'.m
                /\ count' = n
                /\ elems' = SubSeq(elems, 1, n)]_vars

(* C5: resize(m) with 0 < m < count on an array with a hook passes the     *)
(* elements at indices count-1 down to m to the hook, each once, in that   *)
(* order, and no other.                                                    *)
C5_ResizeHooksDiscarded ==
    [][(last'.op = "resize" /\ gc /\ sig = PAK_ARR_SIGNATURE
          /\ 0 < last'.m /\ last'.m < count)
         => last'.log = [k \in 1..(count - last'.m) |->
                           [idx |-> count - k, e |-> elems[count - k + 1]]]]_vars

(* C6: a resize whose reallocation fails returns -1, leaves the array      *)
(* (count, max, elements, handle) as it was and calls no hook.             *)
C6_ResizeFailureKeepsState ==
    [][(last'.op = "resize" /\ last'.m > 0 /\ last'.rc = -1)
         => (UNCHANGED arrayState /\ last'.log = <<>>)]_vars

(* C7: free of an array with a hook and count N passes each of the N       *)
(* remaining elements to the hook once, so that every element pushed has   *)
(* met the hook exactly once when the array is gone.                       *)
C7_FreeHooksAll ==
    [][(last'.op = "free" /\ last'.rc = 0 /\ gc)
         => /\ Len(last'.log) = count
            /\ \A i \in 0..(count - 1) :
                  \E k \in 1..Len(last'.log) :
                     last'.log[k] = [idx |-> i, e |-> elems[i + 1]]
            /\ \A i \in 1..(nextId - 1) : hooked'[i] = 1]_vars

(* C8: free calls the hook in strictly decreasing index order, the last    *)
(* remaining element first and the first element last.                     *)
C8_FreeHookOrder ==
    [][(last'.op = "free" /\ last'.rc = 0 /\ gc /\ count > 0)
         => /\ Len(last'.log) > 0
            /\ last'.log[1].idx = count - 1
            /\ last'.log[Len(last'.log)].idx = 0
            /\ \A k \in 1..(Len(last'.log) - 1) :
                  last'.log[k + 1].idx < last'.log[k].idx]_vars

(* C9: a push with an element size other than elem_sz returns -1 and       *)
(* changes nothing: no expand, no hook, also when count = max.             *)
C9_PushSizeMismatch ==
    [][(phase = "live" /\ last'.op = "push" /\ last'.sz # elem_sz)
         => /\ last'.rc = -1
            /\ last'.log = <<>>
            /\ UNCHANGED <<arrayState, nextId, hooked>>]_vars

(* A push with the wrong size was refused on a full array.                 *)
C9_Witness ==
    /\ phase = "live"
    /\ last.op = "push"
    /\ last.sz # elem_sz
    /\ last.rc = -1
    /\ count = max
    /\ count > 0

(* C10: a push on a full array whose expand fails returns -1 and leaves    *)
(* count, max and the elements as they were.                               *)
C10_PushExpandFailure ==
    [][(last'.op = "push" /\ last'.rc = -1 /\ last'.sz = elem_sz
          /\ count >= max)
         => (count' = count /\ max' = max /\ elems' = elems)]_vars

(* C11: a pop on an empty array returns 0 and does nothing: count stays   *)
(* 0, max is unchanged, no hook is called and no contraction is attempted, *)
(* however often it is repeated.                                           *)
C11_PopEmptyNoop ==
    [][(phase = "live" /\ last'.op = "pop" /\ count = 0)
         => /\ last'.rc = 0
            /\ last'.log = <<>>
            /\ UNCHANGED <<arrayState, nextId, hooked>>]_vars

(* An empty array with a hook and more than one growth increment of       *)
(* capacity has just been popped.                                          *)
C11_Witness ==
    /\ phase = "live"
    /\ gc
    /\ last.op = "pop"
    /\ last.log = <<>>
    /\ count = 0
    /\ max > rate

(* C12: a pop on a non-empty array calls the hook (if any) exactly once,   *)
(* on the element at index count - 1 of the count before the decrement,    *)
(* takes one off count, and contracts (max becomes max - rate) exactly     *)
(* when the new count is below max - rate.                                 *)
C12_PopNonEmpty ==
    [][(phase = "live" /\ last'.op = "pop" /\ count > 0)
         => /\ last'.rc = 0
            /\ last'.log = IF gc THEN <<[idx |-> count - 1, e |-> elems[count]]>>
                                 ELSE <<>>
            /\ count' = count - 1
            /\ max' = IF count - 1 < max - rate THEN max - rate ELSE max]_vars

(* A pop with a hook has just removed an element and one remains.          *)
C12_Witness ==
    /\ phase = "live"
    /\ gc
    /\ last.op = "pop"
    /\ Len(last.log) = 1
    /\ last.log[1].idx = count
    /\ count > 0
    /\ max = rate

(* C16: expand asks for max + rate and contract for max - rate; a push     *)
(* expands exactly when count = max at the call, so a successful push      *)
(* raises max by rate when the array was full and leaves it alone when not. *)
C16_ExpandContractStep ==
    [][/\ (last'.op = "expand" /\ last'.rc = 0)
            => (max' = max + rate /\ count' = count)
       /\ (last'.op = "contract" /\ last'.rc = 0)
            => /\ max' = max - rate
               /\ count' = IF count < max - rate THEN count ELSE max - rate
       /\ (last'.op = "push" /\ last'.rc = 0)
            => max' = IF count = max THEN max + rate ELSE max]_vars

(* An explicit contract has just succeeded and left the array full.        *)
C16_Witness ==
    /\ phase = "live"
    /\ last.op = "contract"
    /\ last.rc = 0
    /\ count = max
    /\ max > rate

(* C18: rate and elem_sz are what pak__arr_new was given (rate the initial *)
(* capacity) and no later call changes them.                               *)
C18_RateAndSizeFixed ==
    [][/\ (last'.op = "new" /\ last'.rc = 0)
            => (rate' = last'.m /\ elem_sz' = last'.sz)
       /\ phase = "live" => (rate' = rate /\ elem_sz' = elem_sz)]_vars

(* A resize to a capacity other than the growth rate has just succeeded    *)
(* and moved the block.                                                    *)
C18_Witness ==
    /\ phase = "live"
    /\ last.op = "resize"
    /\ last.rc = 0
    /\ max # rate
    /\ pp = 2
    /\ count > 0

(* C19: pak__arr_new / pak__arr_new_gc with max <= 0, or with a failing    *)
(* malloc, returns NULL and leaves no array and no allocation behind.      *)
C19_NewFailure ==
    [][(last'.op = "new" /\ (last'.m <= 0 \/ last'.rc # 0))
         => /\ last'.rc = -1
            /\ pp' = NULL
            /\ alloc' = 0
            /\ phase' = "init"]_vars

(* A creation with a positive capacity has just failed in malloc.          *)
C19_Witness ==
    /\ last.op = "new"
    /\ last.rc = -1
    /\ last.m > 0
    /\ pp = NULL
    /\ phase = "init"

(* C20: resize with max <= 0, and contract when max <= rate, return -1 and *)
(* change nothing: no hook call, no reallocation, same handle.             *)
C20_ResizeRejectsNonPositive ==
    [][(phase = "live" /\ (\/ (last'.op = "resize" /\ last'.m <= 0)
                           \/ (last'.op = "contract" /\ max <= rate)))
         => /\ last'.rc = -1
            /\ last'.log = <<>>
            /\ UNCHANGED <<arrayState, nextId, hooked>>]_vars

(* A resize to a non-positive capacity was refused on a non-empty array    *)
(* with a hook.                                                            *)
C20_Witness ==
    /\ phase = "live"
    /\ gc
    /\ last.op = "resize"
    /\ last.m <= 0
    /\ last.rc = -1
    /\ count > 0

(* C13: without allocation failure, every push onto an array created with *)
(* a positive capacity succeeds, adds one to count and leaves max >= count; *)
(* every pop succeeds and takes one off a positive count; the signature    *)
(* stays intact.  Hence N pushes give count = N and N pops give 0 again.   *)
C13_PushesThenPops ==
    [][/\ last'.op = "push"
            => (last'.rc = 0 /\ count' = count + 1 /\ max' >= count')
       /\ last'.op = "pop"
            => (last'.rc = 0 /\ count' = IF count > 0 THEN count - 1 ELSE 0)
       /\ phase' = "live" => sig' = PAK_ARR_SIGNATURE]_vars

(* Three or more pushes onto an array of capacity 1, then as many pops:    *)
(* the array is empty, valid and back at its first capacity.               *)
C13_Witness ==
    /\ phase = "live"
    /\ last.op = "pop"
    /\ count = 0
    /\ rate = 1
    /\ max = 1
    /\ nextId >= 4
    /\ sig = PAK_ARR_SIGNATURE

(* C14: with a hook, pushes and pops call the hook once per pop and never  *)
(* otherwise, each time on the most recently pushed element still in the   *)
(* array (last in, first out), with the payload that was pushed: the       *)
(* payloads hooked so far are exactly those pushed and no longer stored.   *)
C14_HookLifo ==
    (phase = "live" /\ gc) =>
        /\ \A i \in 1..(nextId - 1) :
              hooked[i] = IF \E k \in 1..Len(elems) : elems[k] = i THEN 0 ELSE 1
        /\ \A k \in 1..(Len(elems) - 1) : elems[k] < elems[k + 1]
        /\ Len(last.log) <= 1
        /\ (last.op = "pop" /\ last.log # <<>>)
              => /\ last.log[1].idx = count
                 /\ last.log[1].e \in 1..(nextId - 1)
                 /\ \A k \in 1..Len(elems) : elems[k] < last.log[1].e

(* Three pushes and three pops on an array of capacity 1 with a hook: the  *)
(* last pop contracted and hooked the first payload.                       *)
C14_Witness ==
    /\ phase = "live"
    /\ gc
    /\ rate = 1
    /\ nextId = 4
    /\ count = 0
    /\ last.op = "pop"
    /\ last.m = 2
    /\ max = 1
    /\ last.log = <<[idx |-> 0, e |-> 1]>>
    /\ \A i \in 1..3 : hooked[i] = 1

(* C15 as stated: on an array created with capacity 4, the pushes that     *)
(* take count to 4 trigger one expand, so that max is 8 when count is 4.   *)
C15_ExpandedAtFour ==
    (phase = "live" /\ rate = 4 /\ last.op = "push" /\ count = 4
       /\ nextId = 5)
      => max = 8

(* C15 amended: on an array created with capacity 4, max is still 4 when   *)
(* the pushes take count to 4; the fifth push expands, so that max is 8    *)
(* when count is 5; pops contract back to 4 once count is below 4; max is  *)
(* never below 1.                                                          *)
C15_ExpandAtFifthPush ==
    (phase = "live" /\ rate = 4) =>
        /\ max >= 1
        /\ (count = nextId - 1 /\ count <= 4) => max = 4
        /\ count >= 5 => max = 8
        /\ count <= 3 => max = 4

(* Five pushes and two pops on an array of capacity 4: the second pop      *)
(* contracted from 8 to 4.                                                 *)
C15_Witness ==
    /\ phase = "live"
    /\ rate = 4
    /\ nextId = 6
    /\ last.op = "pop"
    /\ last.m = 8
    /\ count = 3
    /\ max = 4

C21_BadSignatureRejected ==
    [][(phase = "live" /\ sig # PAK_ARR_SIGNATURE)
         => /\ last'.op \in {"push", "pop", "resize", "expand", "contract", "free"}
            /\ last'.rc = -1
            /\ last'.log = <<>>
            /\ UNCHANGED <<phase, arrayState, nextId, hooked>>]_vars

(* A pop was refused on a non-empty block with a hook and more capacity    *)
(* than count plus rate, where a valid array would have called the hook,   *)
(* decremented and contracted.                                             *)
C21_Witness ==
    /\ phase = "live"
    /\ sig # PAK_ARR_SIGNATURE
    /\ last.op = "pop"
    /\ last.rc = -1
    /\ gc
    /\ count = 1
    /\ rate = 0
    /\ max = 2
    /\ pp # NULL

(* C23: across push, pop, resize, expand, contract and free on an array    *)
(* with a hook, the hook is never called on an element that is still live  *)
(* after the call (an index below count), and no pushed element meets the  *)
(* hook more than once.                                                    *)
C23_HookOnlyDiscarded ==
    /\ \A i \in DOMAIN hooked : hooked[i] <= 1
    /\ phase = "live" =>
          /\ \A k \in 1..Len(last.log) : last.log[k].idx >= count
          /\ \A i \in DOMAIN hooked :
                hooked[i] >= 1 => \A k \in 1..Len(elems) : elems[k] # i

(* A truncating resize has hooked a discarded element while another        *)
(* element stays live.                                                    *)
C23_Witness ==
    /\ phase = "live"
    /\ gc
    /\ last.op = "resize"
    /\ last.rc = 0
    /\ Len(last.log) >= 1
    /\ last.log[1].e \in Ids
    /\ count >= 1
    /\ elems[1] \in Ids

(* C24: an array without a hook goes through the same count, capacity and *)
(* element transitions and returns the same codes as one with a hook: from *)
(* every reachable state, each call with each input gives the same return  *)
(* code, count, max, elements, block and handle whether the header's gc is *)
(* set or NULL.  After a free there is no header left to compare, only the *)
(* code, the handle and the release of the block.                          *)
C24_HookAbsentSameTransitions ==
    LET H == [Arr EXCEPT !.gc = TRUE]
        N == [Arr EXCEPT !.gc = FALSE]
        Same(r1, r2) == /\ r1.rc = r2.rc
                        /\ r1.arr.pp = r2.arr.pp
                        /\ r1.arr.alloc = r2.arr.alloc
                        /\ r1.arr.count = r2.arr.count
                        /\ r1.arr.max = r2.arr.max
                        /\ r1.arr.rate = r2.arr.rate
                        /\ r1.arr.elems = r2.arr.elems
                        /\ r2.log = <<>>
        SameGone(r1, r2) == /\ r1.rc = r2.rc
                            /\ r1.arr.pp = r2.arr.pp
                            /\ r1.arr.alloc = r2.arr.alloc
                            /\ r2.log = <<>>
    IN  /\ phase = "init" =>
              \A sz \in ElemSizes, m \in -1..MaxCap, ok \in BOOLEAN, addr \in Addrs :
                 Same(pak__arr_new_gc(sz, m, TRUE, ok, addr),
                      pak__arr_new_gc(sz, m, FALSE, ok, addr))
        /\ phase = "live" =>
              \A ok \in BOOLEAN, addr \in Addrs, keep \in BOOLEAN :
                 /\ \A m \in -1..MaxCap :
                       Same(pak__arr_resize(H, m, ok, addr, keep),
                            pak__arr_resize(N, m, ok, addr, keep))
                 /\ Same(pak__arr_expand(H, ok, addr, keep),
                         pak__arr_expand(N, ok, addr, keep))
                 /\ Same(pak__arr_contract(H, ok, addr, keep),
                         pak__arr_contract(N, ok, addr, keep))
                 /\ Same(pak__arr_pop(H, ok, addr, keep),
                         pak__arr_pop(N, ok, addr, keep))
                 /\ \A sz \in ElemSizes, oob \in {nextId, GARBAGE} :
                       Same(pak__arr_push(H, sz, nextId, ok, addr, keep, oob),
                            pak__arr_push(N, sz, nextId, ok, addr, keep, oob))
        /\ phase \in {"live", "freed"} =>
              SameGone(pak__arr_free(H), pak__arr_free(N))

(* An array without a hook has been pushed to three times and was then     *)
(* resized to one slot.                                                    *)
C24_Witness ==
    /\ phase = "live"
    /\ ~gc
    /\ last.op = "resize"
    /\ last.rc = 0
    /\ last.m = 1
    /\ count = 1
    /\ nextId = 4
    /\ elems = <<1>>

(* C22: after a call that reallocates (resize, expand, contract, a push    *)
(* that expands, a pop that contracts) the handle variable holds the       *)
(* address realloc returned, and the call has not read or written the      *)
(* array through any other address after the realloc; stated of the push   *)
(* of src/pak.h and of the push of src/unnamed/part_000 alike.             *)
C22_HandleAfterRealloc ==
    [][(last'.addr # NULL)
         => (pp' = last'.addr /\ last'.via \subseteq {pp'})]_vars

C26_ListFreeRemovesAll ==
    [][(last'.op = "list_free" /\ last'.rc = 0)
         => /\ lpp' = NULL
            /\ list'.count = 0
            /\ ListValues(LW') = <<>>
            /\ list.gc =>
                  /\ Len(last'.log) = list.count
                  /\ \A i \in 1..Len(ListValues(LW)) :
                        Cardinality({k \in 1..Len(last'.log) :
                                       last'.log[k].e = ListValues(LW)[i]}) = 1]_vars

(* C29: pak_list_foreach runs its body on every node once, from first to   *)
(* last (count times for count elements, also for one element), and        *)
(* pak_list_foreach_back on every node once from last to first.            *)
C29_ForeachVisitsAll ==
    [][LET vals    == ListValues(LW)
           visited == [k \in 1..Len(last'.log) |-> nodes[last'.log[k]].data]
       IN  /\ last'.op = "list_foreach"
                 => (Len(last'.log) = list.count /\ visited = vals)
           /\ last'.op = "list_foreach_back"
                 => /\ Len(last'.log) = list.count
                    /\ visited = [k \in 1..Len(vals) |-> vals[Len(vals) + 1 - k]]]_vars

(* C25: pak__arr_free and pak_list_free set the caller's handle variable   *)
(* to NULL on success, and a second free through that variable is a no-op: *)
(* no hook call, nothing released, nothing changed.                        *)
C25_FreeSetsNullTwiceNoop ==
    [][/\ (last'.op = "free" /\ phase = "live")
            => (last'.rc = 0 /\ pp' = NULL /\ alloc' = 0)
       /\ (last'.op = "free" /\ pp = NULL)
            => /\ last'.rc = -1
               /\ last'.log = <<>>
               /\ UNCHANGED <<arrayState, hooked, otherState>>
       /\ (last'.op = "list_free" /\ lpp # NULL)
            => (last'.rc = 0 /\ lpp' = NULL /\ <<"list", 0>> \notin lheap')
       /\ (last'.op = "list_free" /\ lpp = NULL)
            => /\ last'.rc = -1
               /\ last'.log = <<>>
               /\ UNCHANGED <<arrayState, hooked, otherState>>]_vars

(* An array and a list, both with a hook and two elements, have been freed *)
(* and the list has just been freed a second time.                         *)
C25_Witness ==
    /\ phase = "freed"
    /\ pp = NULL
    /\ gc
    /\ lpp = NULL
    /\ list.gc
    /\ Len(nodes) = 2
    /\ Len(elems) >= 1
    /\ last.op = "list_free"
    /\ last.rc = -1

C30_InsertDuplicate ==
    [][(last'.op = "dict_insert" /\ DictMap[last'.key] # NULL)
         => /\ last'.rc = -1
            /\ dict' = dict
            /\ pairs' = pairs
            /\ DictMap' = DictMap]_vars

(* An insert whose allocations succeeded was refused because its key is    *)
(* held by the second pair of a chain, with another value.                 *)
C30_Witness ==
    /\ last.op = "dict_insert"
    /\ last.rc = -1
    /\ last.copied
    /\ Len(pairs) = 2
    /\ pairs[1].next = 2
    /\ pairs[2].key = last.key
    /\ pairs[2].val # last.val
    /\ pairs[2].live
    /\ dict.busy = 1

(* C31: in runs of pushes and pops only, on an array created with          *)
(* capacity r and without allocation failure, max is a positive multiple   *)
(* of r and max - r <= count <= max between calls: the unused capacity is  *)
(* never more than one growth increment, and an array popped back to       *)
(* count 0 has capacity r again.                                           *)
C31_CapacityTracksCount ==
    phase = "live" =>
        /\ max > 0
        /\ max % rate = 0
        /\ max - rate <= count
        /\ count <= max
        /\ count = 0 => max = rate

(* An array of capacity 2 had grown to 6 and has been popped back to one   *)
(* element: the last pop contracted it from 4 to 2.                        *)
C31_Witness ==
    /\ phase = "live"
    /\ rate = 2
    /\ nextId = 6
    /\ last.op = "pop"
    /\ last.m = 4
    /\ max = 2
    /\ count = 1

(* C32: a contraction that pak__arr_pop triggers never discards a live     *)
(* element, from any reachable state (also after explicit resizes and      *)
(* failed reallocations): the capacity it asks for is above the count left *)
(* after the pop, so resize does not truncate, count drops by exactly one, *)
(* the only hook call of the pop is the one on the popped element, and the *)
(* elements inside the block stay as they were.                            *)
C32_AutoContractKeepsLive ==
    [][(phase = "live" /\ last'.op = "pop" /\ max' # max)
         => /\ max' = max - rate
            /\ max' > count'
            /\ count' = count - 1
            /\ last'.log = IF gc THEN <<[idx |-> count - 1, e |-> elems[count]]>>
                                 ELSE <<>>
            /\ Len(elems') = count'
            /\ \A i \in 1..count' : i <= alloc => elems'[i] = elems[i]]_vars

(* A pop on an array with a hook has contracted and left an element in an  *)
(* array whose capacity is still more than one increment above its count,  *)
(* which only an explicit resize before the pop can produce.               *)
C32_Witness ==
    /\ phase = "live"
    /\ gc
    /\ last.op = "pop"
    /\ Len(last.log) = 1
    /\ count >= 1
    /\ count < max - rate
    /\ elems[1] \in Ids

(* C33: in every reachable state, also after a failed reallocation, the    *)
(* max of the header is at most the number of element slots of the block,  *)
(* so that a push that sees count < max stores inside the block.           *)
C33_CapacityWithinAllocation ==
    phase = "live" => max <= alloc

(* C34: after any sequence of pushes, unshifts, pops and shifts, failed    *)
(* ones included, the list is well formed: first is NULL exactly when last *)
(* is NULL and exactly when count is 0; first has no prev and last has no  *)
(* next; among the nodes of the list, a->next is b exactly when b->prev is *)
(* a; and exactly count nodes are reached from first by next and from last *)
(* by prev.                                                                *)
C34_ListWellFormed ==
    lpp # NULL =>
        LET fwd == NextChain(LW, list.first, Len(nodes) + 1)
            bwd == PrevChain(LW, list.last, Len(nodes) + 1)
            in_list == {fwd[i] : i \in 1..Len(fwd)} \cup {bwd[i] : i \in 1..Len(bwd)}
        IN  /\ (list.first = NULL) <=> (list.last = NULL)
            /\ (list.first = NULL) <=> (list.count = 0)
            /\ list.first # NULL => nodes[list.first].prev = NULL
            /\ list.last # NULL => nodes[list.last].next = NULL
            /\ \A a \in in_list : \A b \in in_list :
                  (nodes[a].next = b) <=> (nodes[b].prev = a)
            /\ Len(fwd) = list.count
            /\ Len(bwd) = list.count
            /\ \A i \in 1..Len(fwd) : bwd[Len(fwd) + 1 - i] = fwd[i]

(* Two pushes and two unshifts were followed by a pop and a shift: two     *)
(* nodes are left, the first of them put in by an unshift.                 *)
C34_Witness ==
    /\ lpp # NULL
    /\ Len(nodes) = 4
    /\ list.count = 2
    /\ list.first > list.last
    /\ last.op = "list_shift"
    /\ last.rc = 0

(* C35: every successful pak_list_pop and pak_list_shift releases both     *)
(* allocations of the element it removes, the node structure and the data  *)
(* block, so that after the removal of every element no allocation made by *)
(* a push or an unshift is left.                                           *)
C35_PopReleasesNodeAndData ==
    [][(lpp # NULL /\ last'.op \in {"list_pop", "list_shift"} /\ last'.rc = 0)
         => LET k == IF last'.op = "list_pop" THEN list.last ELSE list.first
            IN  /\ <<"data", k>> \notin lheap'
                /\ <<"node", k>> \notin lheap'
                /\ list'.count = 0 => lheap' \subseteq {<<"list", 0>>}]_vars

(* C36: after any sequence of inserts and removes, successful or failed,   *)
(* busy is the number of buckets whose chain is not empty, 0 <= busy <=    *)
(* max, and max is what it was at creation: no call changes it.            *)
C36_BusyCountsBuckets ==
    [][dict' # NoDict
         => /\ dict'.busy = Cardinality({i \in 1..dict'.max : dict'.buckets[i] # NULL})
            /\ 0 <= dict'.busy
            /\ dict'.busy <= dict'.max
            /\ Len(dict'.buckets) = dict'.max
            /\ dict'.max = dict'.rate
            /\ dict # NoDict => dict'.max = dict.max]_vars

(* A dictionary of two buckets holds a chain of two pairs in one bucket    *)
(* and has just had the only pair of the other bucket removed.             *)
C36_Witness ==
    /\ dict # NoDict
    /\ dict.max = 2
    /\ dict.busy = 1
    /\ last.op = "dict_remove"
    /\ \E i \in 1..Len(pairs) : pairs[i].live /\ pairs[i].next # NULL
    /\ \E i \in 1..Len(pairs) : ~pairs[i].live

(* C37: with int as a two's-complement integer of IntBits bits, an expand  *)
(* whose max + rate is above INT_MAX never succeeds with a wrapped         *)
(* capacity: the expand, and the push that called it, return -1 and leave  *)
(* count, max and the elements as they were, so that max > 0 and           *)
(* count <= max still hold.                                                *)
C37_OverflowingExpandRejected ==
    [][(/\ phase = "live"
        /\ max + rate > INT_MAX
        /\ \/ last'.op = "expand"
           \/ last'.op = "push" /\ count >= max)
         => /\ last'.rc = -1
            /\ count' = count
            /\ max' = max
            /\ rate' = rate
            /\ alloc' = alloc
            /\ elems' = elems
            /\ max' > 0
            /\ count' <= max']_vars

(* A full array that had grown before was pushed to when max + rate no     *)
(* longer fitted an int, and the push failed.                              *)
C37_Witness ==
    /\ phase = "live"
    /\ last.op = "push"
    /\ last.rc = -1
    /\ count = max
    /\ max > rate
    /\ max + rate > INT_MAX

====
